---- MODULE Spec2Model ----
(***************************************************************************)
(* Model of the generated maintenance operation                            *)
(* migrateAllRecordsToNewSchema (dynamodb-dao-generator) together with the *)
(* generated findByUnique it calls: a paginated scan of the source table,  *)
(* a concurrency-limited reconcile fan-out that repairs the unique-index   *)
(* table, and a concurrency-limited forced upsert of every scanned object. *)
(***************************************************************************)
EXTENDS Integers, Sequences, FiniteSets, TLC

----------------------------------------------------------------------------
(* Bounds of the model *)

\* number of distinct natural keys (logical entities)
NumNaturalKeys == 1
\* most records held by the two tables together in the initial state
MaxRecords == 2
\* identities carried by the initially stored records are 1..MaxUuid
MaxUuid == 2
\* updatedAt stamps of the initially stored records are 1..MaxTime
MaxTime == 2
\* most items the store returns in one scan page
MaxPageSize == 2
\* most store calls that fail over a behaviour
MaxFailures == 1
\* number of successive invocations of migrateAllRecordsToNewSchema
MaxRuns == 2

\* new Bottleneck({ maxConcurrent: 1000 }), scaled to the size of the model
maxConcurrent == 2

----------------------------------------------------------------------------
(* Data *)

None == "none"

NaturalKeys == 1..NumNaturalKeys

\* serialization formats of the unique key: two outdated ones and the
\* one of the current schema
StaleFormats == {"oldA", "oldB"}
CurrentFormat == "new"
Formats == StaleFormats \cup {CurrentFormat}

\* a serialized unique key, the attribute `p` of a stored item
SerializeUniqueKey(format, nk) == <<format, nk>>
Keys == {SerializeUniqueKey(f, nk) : f \in Formats, nk \in NaturalKeys}

\* position of a key in the order in which the store scans a table
FormatRank(f) == CASE f = "oldA" -> 0 [] f = "oldB" -> 1 [] OTHER -> 2
KeyRank(p) == (p[2] - 1) * 3 + FormatRank(p[1])

\* the domain object with its metadata
Entity(nk, uuid, updatedAt) == [nk |-> nk, uuid |-> uuid, updatedAt |-> updatedAt]

\* the attribute `o` of a stored item: the serialized object
SerializeObject(object) == <<object.nk, object.uuid, object.updatedAt>>

\* castFromDatabaseObject: decodes the attribute `o` of an item
castFromDatabaseObject(item) == Entity(item.o[1], item.o[2], item.o[3])

\* castToDatabaseObject(...).byUniqueOnNaturalKey: the item of the unique
\* key table for an object, keyed by the current schema's serialization
castToDatabaseObject(object) ==
    [p |-> SerializeUniqueKey(CurrentFormat, object.nk), o |-> SerializeObject(object)]

\* an item as some schema version stored it
StoredItem(format, object) ==
    [p |-> SerializeUniqueKey(format, object.nk), o |-> SerializeObject(object)]

\* a table with hash key `p`: no two items share a key
IsTable(items) == \A x \in items : \A y \in items : x.p = y.p => x = y

\* the tables that hold one item under each key of `keys`
TablesOver(keys) ==
    {{StoredItem(k[1], Entity(k[2], meta[k][1], meta[k][2])) : k \in keys} :
        meta \in [keys -> (1..MaxUuid) \X (1..MaxTime)]}

\* the tables of at most n items
TablesUpTo(n) ==
    UNION {TablesOver(keys) : keys \in {ks \in SUBSET Keys : Cardinality(ks) <= n}}

----------------------------------------------------------------------------
(* The store *)

\* simpleDynamodbClient.query with KeyConditionExpression 'p = :p'
Query(table, p) == {x \in table : x.p = p}

\* simpleDynamodbClient.put: replaces the item stored under the same key
Put(table, item) == {x \in table : x.p # item.p} \cup {item}

\* the pagination key that is undefined: the ExclusiveStartKey of the first
\* request, the LastEvaluatedKey of the last page
NoKey == <<>>

\* what a pagination key (LastEvaluatedKey, ExclusiveStartKey) holds of an
\* item: its hash key `p` and what tells it apart from another record stored
\* under the same hash key
ScanPosition(x) == <<x.p, x.o[2], x.o[3]>>

\* the store scans x before y: by hash key, and records stored under one
\* hash key one after the other
ScansBefore(x, y) ==
    \/ KeyRank(x[1]) < KeyRank(y[1])
    \/ /\ x[1] = y[1]
       /\ (x[2] < y[2] \/ (x[2] = y[2] /\ x[3] < y[3]))

\* the items of a table that a scan has still to return after startKey: the
\* items of later hash keys and, of a hash key that holds several records,
\* the later records
ItemsAfter(table, startKey) ==
    IF startKey = NoKey THEN table
    ELSE {x \in table :
            \/ KeyRank(x.p) > KeyRank(startKey[1])
            \/ /\ Cardinality(Query(table, x.p)) > 1
               /\ ScansBefore(startKey, ScanPosition(x))}

RECURSIVE InScanOrder(_)
InScanOrder(items) ==
    IF items = {} THEN <<>>
    ELSE LET first == CHOOSE x \in items : \A y \in items :
                          y = x \/ ScansBefore(ScanPosition(x), ScanPosition(y))
         IN <<first>> \o InScanOrder(items \ {first})

\* the items of one scan page: the next n items after startKey
ScanPage(table, startKey, n) ==
    LET rest == InScanOrder(ItemsAfter(table, startKey))
    IN SubSeq(rest, 1, IF n < Len(rest) THEN n ELSE Len(rest))

\* a faulty variant of Flat: keeps the items of the last page only
FlatLastPage(pages) == IF pages = <<>> THEN <<>> ELSE pages[Len(pages)]

RECURSIVE Flat(_)
\* pages.flat()
Flat(pages) == IF pages = <<>> THEN <<>> ELSE Head(pages) \o Flat(Tail(pages))

----------------------------------------------------------------------------
(* Generated data access methods used by the migration *)

\* what findByUnique gives: null, the object found, or a throw
Null == [kind |-> "null"]
Threw == [kind |-> "threw"]
Found(object) == [kind |-> "found", object |-> object]
NotLookedUp == [kind |-> "none"]

\* a faulty variant of findByUnique: takes the first of several items
findByUniqueFirst(table, object) ==
    LET found == Query(table, castToDatabaseObject(object).p)
    IN IF Cardinality(found) = 0 THEN Null
       ELSE Found(castFromDatabaseObject(CHOOSE x \in found : TRUE))

\* findByUnique: queries the unique key table by the key the current schema
\* serializes for the object
findByUnique(table, object) ==
    LET found == Query(table, castToDatabaseObject(object).p)
    IN IF Cardinality(found) = 0 THEN Null
       ELSE IF Cardinality(found) > 1 THEN Threw
       ELSE Found(castFromDatabaseObject(CHOOSE x \in found : TRUE))

\* upsert: the canonical write path, for a lookup that did not throw. It
\* keeps the uuid of the object found by the unique key or generates one,
\* stamps updatedAt and writes the item; without `force` an object that is
\* already stored is not written again.
upsert(table, object, force, now, newUuid) ==
    LET foundObject == findByUnique(table, object)
    IN IF foundObject.kind = "found" /\ ~force THEN table
       ELSE Put(table, castToDatabaseObject(
                Entity(object.nk,
                       IF foundObject.kind = "found" THEN foundObject.object.uuid ELSE newUuid,
                       now)))

\* whether upsert generates a uuid for the object
upsertGeneratesUuid(table, object) == findByUnique(table, object).kind # "found"

----------------------------------------------------------------------------
(* State *)

Runs == 1..MaxRuns

\* most items a table ever holds: the initial ones and one per natural key
\* under the current serialization
MaxItems == MaxRecords + NumNaturalKeys

VARIABLES
    uniqueKeyTable,   \* items of the unique key table (the destination)
    otherTable,       \* items of the table a caller may name as sourceTableName
    run,              \* number of invocations made so far
    phase,            \* phase[r]: where invocation r stands
    dryRun,           \* dryRun[r]: argument of invocation r
    sourceTableName,  \* sourceTableName[r]: "unique" (the default) or "other"
    lastEvaluatedKey, \* scan loop of the current invocation
    pages,            \* scan loop of the current invocation
    scanLog,          \* history: <<ExclusiveStartKey, LastEvaluatedKey>> of each scan request
    items,            \* items[r]: pages.flat() of invocation r
    reconcile,        \* reconcile[r][i]: the reconcile task of the i-th object
    rewrite,          \* rewrite[r][i]: the re-write task of the i-th object
    writtenRecords,   \* writtenRecords[r]: indexes of the objects pushed
    stats,            \* stats[r]: the report returned by invocation r
    tableAtStart,     \* history: tableAtStart[r] the unique key table when r was invoked
    sourceAtStart,    \* history: sourceAtStart[r] the source table when r was invoked
    clock,            \* the time `new Date()` reads
    nextUuid,         \* the next identity uuid() generates
    upsertCalls,      \* history: upsertCalls[r][i] the `force` of each upsert call for the i-th object
    failures          \* number of store calls that have failed

vars == <<uniqueKeyTable, otherTable, run, phase, dryRun, sourceTableName,
          lastEvaluatedKey, pages, scanLog, items, reconcile, rewrite,
          writtenRecords, stats, tableAtStart, sourceAtStart, clock, nextUuid,
          upsertCalls, failures>>

scanVars == <<lastEvaluatedKey, pages, scanLog>>
argVars == <<dryRun, sourceTableName, tableAtStart, sourceAtStart>>

\* the objects of invocation r: items.map(castFromDatabaseObject)
Objects(r) == [i \in 1..Len(items[r]) |-> castFromDatabaseObject(items[r][i])]

\* the table invocation r scans
SourceTable(r) == IF sourceTableName[r] = "unique" THEN uniqueKeyTable ELSE otherTable

\* the tasks the limiter has started and that have not settled
InFlightReconcile == {<<r, i>> \in Runs \X (1..MaxItems) :
                        /\ r <= run /\ i <= Len(reconcile[r])
                        /\ reconcile[r][i].pc \in {"lookup", "put"}}
InFlightRewrite == {<<r, i>> \in Runs \X (1..MaxItems) :
                        /\ r <= run /\ i <= Len(rewrite[r])
                        /\ rewrite[r][i] = "upsert"}
InFlight == Cardinality(InFlightReconcile) + Cardinality(InFlightRewrite)

\* a faulty variant of LimiterAdmits: a limiter that starts every task at once
LimiterAdmitsAlways == TRUE

\* bottleneck.schedule starts a queued task only below maxConcurrent
LimiterAdmits == InFlight < maxConcurrent

\* what stats[r] holds until invocation r returns its stats
NoStats == [from |-> None, to |-> None, writtenUniqueKeyRecords |-> 0, objects |-> 0]

QueuedTask == [pc |-> "queued", found |-> NotLookedUp, put |-> FALSE]

\* no invocation made yet
NotInvoked ==
    /\ run = 0
    /\ phase = [r \in Runs |-> "idle"]
    /\ dryRun = [r \in Runs |-> FALSE]
    /\ sourceTableName = [r \in Runs |-> "unique"]
    /\ lastEvaluatedKey = NoKey
    /\ pages = <<>>
    /\ scanLog = <<>>
    /\ items = [r \in Runs |-> <<>>]
    /\ reconcile = [r \in Runs |-> <<>>]
    /\ rewrite = [r \in Runs |-> <<>>]
    /\ writtenRecords = [r \in Runs |-> <<>>]
    /\ stats = [r \in Runs |-> NoStats]
    /\ tableAtStart = [r \in Runs |-> {}]
    /\ sourceAtStart = [r \in Runs |-> {}]
    /\ clock = MaxTime
    /\ nextUuid = MaxUuid + 1
    /\ upsertCalls = [r \in Runs |-> [i \in 1..MaxItems |-> <<>>]]
    /\ failures = 0

Init ==
    /\ uniqueKeyTable \in TablesUpTo(MaxRecords)
    /\ otherTable \in TablesUpTo(MaxRecords - Cardinality(uniqueKeyTable))
    /\ IsTable(uniqueKeyTable) /\ IsTable(otherTable)
    /\ NotInvoked

----------------------------------------------------------------------------
(* The invocation and its scan loop *)

\* a caller invokes migrateAllRecordsToNewSchema({ dryRun, sourceTableName })
\* once its previous invocation has returned or thrown
Invoke(dry, source) ==
    /\ run < MaxRuns
    /\ run > 0 => phase[run] \in {"returned", "threw"}
    /\ run' = run + 1
    /\ phase' = [phase EXCEPT ![run + 1] = "scan"]
    /\ dryRun' = [dryRun EXCEPT ![run + 1] = dry]
    /\ sourceTableName' = [sourceTableName EXCEPT ![run + 1] = source]
    /\ tableAtStart' = [tableAtStart EXCEPT ![run + 1] = uniqueKeyTable]
    /\ sourceAtStart' = [sourceAtStart EXCEPT ![run + 1] =
                            IF source = "unique" THEN uniqueKeyTable ELSE otherTable]
    /\ lastEvaluatedKey' = NoKey
    /\ pages' = <<>>
    /\ scanLog' = <<>>
    /\ UNCHANGED <<uniqueKeyTable, otherTable, items, reconcile, rewrite,
                   writtenRecords, stats, clock, nextUuid, upsertCalls, failures>>

\* a faulty variant of NoMorePages: a loop that stops after its first page
NoMorePagesAfterFirst(resultKey) == TRUE

\* `if (!result.LastEvaluatedKey) break`
NoMorePages(resultKey) == resultKey = NoKey

\* one iteration of the scan loop: the request, the store's page of at most
\* n items and the test of result.LastEvaluatedKey. `more` is the store's
\* choice to hand out a continuation token with a page that reaches the end
\* of the table.
ScanNextPage(n, more) ==
    /\ run > 0 /\ phase[run] = "scan"
    /\ LET remaining == InScanOrder(ItemsAfter(SourceTable(run), lastEvaluatedKey))
           page == ScanPage(SourceTable(run), lastEvaluatedKey, n)
           resultKey == IF Len(page) < Len(remaining) \/ (more /\ Len(page) > 0)
                        THEN ScanPosition(page[Len(page)]) ELSE NoKey
           allPages == Append(pages, page)
       IN /\ scanLog' = Append(scanLog, <<lastEvaluatedKey, resultKey>>)
          /\ pages' = allPages
          /\ IF NoMorePages(resultKey)
             THEN /\ items' = [items EXCEPT ![run] = Flat(allPages)]
                  /\ reconcile' = [reconcile EXCEPT ![run] =
                                      [i \in 1..Len(Flat(allPages)) |-> QueuedTask]]
                  /\ phase' = [phase EXCEPT ![run] = "reconcile"]
                  /\ UNCHANGED lastEvaluatedKey
             ELSE /\ lastEvaluatedKey' = resultKey
                  /\ UNCHANGED <<items, reconcile, phase>>
    /\ UNCHANGED <<uniqueKeyTable, otherTable, run, rewrite, writtenRecords, stats,
                   clock, nextUuid, failures>>
    /\ UNCHANGED argVars
    /\ UNCHANGED upsertCalls

\* a faulty variant of ScanFails: a migration that reconciles what it has
\* fetched so far when a scan request fails
ScanFailsKeepsFetched ==
    /\ run > 0 /\ phase[run] = "scan"
    /\ failures < MaxFailures
    /\ failures' = failures + 1
    /\ phase' = [phase EXCEPT ![run] = "threw"]
    /\ items' = [items EXCEPT ![run] = Flat(pages)]
    /\ reconcile' = [reconcile EXCEPT ![run] = [i \in 1..Len(Flat(pages)) |-> QueuedTask]]
    /\ UNCHANGED <<uniqueKeyTable, otherTable, run, rewrite,
                   writtenRecords, stats, clock, nextUuid>>
    /\ UNCHANGED scanVars
    /\ UNCHANGED argVars
    /\ UNCHANGED upsertCalls

\* a scan request fails: the await throws out of the invocation
ScanFails ==
    /\ run > 0 /\ phase[run] = "scan"
    /\ failures < MaxFailures
    /\ failures' = failures + 1
    /\ phase' = [phase EXCEPT ![run] = "threw"]
    /\ UNCHANGED <<uniqueKeyTable, otherTable, run, items, reconcile, rewrite,
                   writtenRecords, stats, clock, nextUuid>>
    /\ UNCHANGED scanVars
    /\ UNCHANGED argVars
    /\ UNCHANGED upsertCalls

----------------------------------------------------------------------------
(* The reconcile phase: one task per scanned object *)

expectedSerializedUniqueKey(r, i) == castToDatabaseObject(Objects(r)[i]).p
\* a faulty variant of foundSerializedUniqueKey: reads the key of the first item
foundSerializedUniqueKeyOfFirst(r, i) == items[r][1].p

foundSerializedUniqueKey(r, i) == items[r][i].p

\* a faulty variant of SafeToWrite: takes an object that is not newer for older
SafeToWriteUnlessNewer(alsoFoundByExpectedKey, object) ==
    \/ alsoFoundByExpectedKey.kind = "null"
    \/ /\ alsoFoundByExpectedKey.kind = "found"
       /\ alsoFoundByExpectedKey.object.updatedAt <= object.updatedAt

\* a faulty variant of SafeToWrite: writes only when nothing is found
SafeToWriteWhenAbsent(alsoFoundByExpectedKey, object) ==
    alsoFoundByExpectedKey.kind = "null"

\* a faulty variant of SafeToWrite: writes whatever is found
SafeToWriteAlways(alsoFoundByExpectedKey, object) == TRUE

\* the test that guards the write of the found object under the expected key
SafeToWrite(alsoFoundByExpectedKey, object) ==
    \/ alsoFoundByExpectedKey.kind = "null"
    \/ /\ alsoFoundByExpectedKey.kind = "found"
       /\ alsoFoundByExpectedKey.object.updatedAt < object.updatedAt

\* a faulty variant of PutsToTable: puts in a dry run too
PutsToTableAlways(dry) == TRUE

\* whether the task issues simpleDynamodbClient.put once the write is safe
PutsToTable(dry) == ~dry

IsReconcileTask(r, i) == r <= run /\ i \in 1..Len(reconcile[r])
IsRewriteTask(r, i) == r <= run /\ i \in 1..Len(rewrite[r])

SetReconcile(r, i, task) == reconcile' = [reconcile EXCEPT ![r][i] = task]

\* the limiter starts the task: it compares the expected with the found key,
\* returns when they are equal and calls findByUnique otherwise
ReconcileStart(r, i) ==
    /\ IsReconcileTask(r, i)
    /\ reconcile[r][i].pc = "queued"
    /\ LimiterAdmits
    /\ IF expectedSerializedUniqueKey(r, i) = foundSerializedUniqueKey(r, i)
       THEN SetReconcile(r, i, [reconcile[r][i] EXCEPT !.pc = "done"])
       ELSE SetReconcile(r, i, [reconcile[r][i] EXCEPT !.pc = "lookup"])
    /\ UNCHANGED <<uniqueKeyTable, otherTable, run, phase, items, rewrite,
                   writtenRecords, stats, clock, nextUuid, failures>>
    /\ UNCHANGED scanVars
    /\ UNCHANGED argVars
    /\ UNCHANGED upsertCalls

\* findByUnique answers: the task decides whether the write is safe, and
\* then either issues the put, or (dry run) only records the object, or skips
ReconcileLookup(r, i) ==
    /\ IsReconcileTask(r, i)
    /\ reconcile[r][i].pc = "lookup"
    /\ LET object == Objects(r)[i]
           alsoFoundByExpectedKey == findByUnique(uniqueKeyTable, object)
       IN IF alsoFoundByExpectedKey.kind = "threw"
          THEN /\ SetReconcile(r, i, [reconcile[r][i] EXCEPT
                                        !.pc = "failed", !.found = alsoFoundByExpectedKey])
               /\ UNCHANGED writtenRecords
          ELSE IF ~SafeToWrite(alsoFoundByExpectedKey, object)
          THEN /\ SetReconcile(r, i, [reconcile[r][i] EXCEPT
                                        !.pc = "done", !.found = alsoFoundByExpectedKey])
               /\ UNCHANGED writtenRecords
          ELSE IF PutsToTable(dryRun[r])
          THEN /\ SetReconcile(r, i, [pc |-> "put", found |-> alsoFoundByExpectedKey,
                                       put |-> TRUE])
               /\ UNCHANGED writtenRecords
          ELSE /\ SetReconcile(r, i, [reconcile[r][i] EXCEPT
                                        !.pc = "done", !.found = alsoFoundByExpectedKey])
               /\ writtenRecords' = [writtenRecords EXCEPT ![r] = Append(@, i)]
    /\ UNCHANGED <<uniqueKeyTable, otherTable, run, phase, items, rewrite,
                   stats, clock, nextUuid, failures>>
    /\ UNCHANGED scanVars
    /\ UNCHANGED argVars
    /\ UNCHANGED upsertCalls

\* the query of findByUnique fails: the task fails
ReconcileLookupFails(r, i) ==
    /\ IsReconcileTask(r, i)
    /\ reconcile[r][i].pc = "lookup"
    /\ failures < MaxFailures
    /\ failures' = failures + 1
    /\ SetReconcile(r, i, [reconcile[r][i] EXCEPT !.pc = "failed"])
    /\ UNCHANGED <<uniqueKeyTable, otherTable, run, phase, items, rewrite,
                   writtenRecords, stats, clock, nextUuid>>
    /\ UNCHANGED scanVars
    /\ UNCHANGED argVars
    /\ UNCHANGED upsertCalls

\* a faulty variant of TableAfterPut: replaces the record with the outdated
\* key, removing it
TableAfterPutAndRemove(table, r, i) ==
    Put(table \ {items[r][i]}, castToDatabaseObject(Objects(r)[i]))

\* the unique key table after simpleDynamodbClient.put of
\* item.byUniqueOnNaturalKey of the i-th object
TableAfterPut(table, r, i) == Put(table, castToDatabaseObject(Objects(r)[i]))

\* the put of item.byUniqueOnNaturalKey completes: the object is recorded
ReconcilePut(r, i) ==
    /\ IsReconcileTask(r, i)
    /\ reconcile[r][i].pc = "put"
    /\ uniqueKeyTable' = TableAfterPut(uniqueKeyTable, r, i)
    /\ writtenRecords' = [writtenRecords EXCEPT ![r] = Append(@, i)]
    /\ SetReconcile(r, i, [reconcile[r][i] EXCEPT !.pc = "done"])
    /\ UNCHANGED <<otherTable, run, phase, items, rewrite, stats, clock, nextUuid,
                   failures>>
    /\ UNCHANGED scanVars
    /\ UNCHANGED argVars
    /\ UNCHANGED upsertCalls

\* the put fails: the task fails
ReconcilePutFails(r, i) ==
    /\ IsReconcileTask(r, i)
    /\ reconcile[r][i].pc = "put"
    /\ failures < MaxFailures
    /\ failures' = failures + 1
    /\ SetReconcile(r, i, [reconcile[r][i] EXCEPT !.pc = "failed"])
    /\ UNCHANGED <<uniqueKeyTable, otherTable, run, phase, items, rewrite,
                   writtenRecords, stats, clock, nextUuid>>
    /\ UNCHANGED scanVars
    /\ UNCHANGED argVars
    /\ UNCHANGED upsertCalls

\* a faulty variant of AllReconcileDone: goes on as soon as one task is done
SomeReconcileDone(r) ==
    Len(reconcile[r]) > 0 => \E i \in 1..Len(reconcile[r]) : reconcile[r][i].pc = "done"

\* a faulty variant of AllReconcileDone: goes on once every task has settled,
\* done or failed
AllReconcileSettled(r) ==
    \A i \in 1..Len(reconcile[r]) : reconcile[r][i].pc \in {"done", "failed"}

AllReconcileDone(r) == \A i \in 1..Len(reconcile[r]) : reconcile[r][i].pc = "done"
SomeReconcileFailed(r) == \E i \in 1..Len(reconcile[r]) : reconcile[r][i].pc = "failed"

\* the stats the invocation returns
Stats(r) ==
    [from |-> sourceTableName[r],
     to |-> "unique",
     writtenUniqueKeyRecords |-> Len(writtenRecords[r]),
     objects |-> Len(Objects(r))]

\* whether the invocation runs the re-write phase
RewritesObjects(dry) == ~dry

\* Promise.all of the reconcile tasks resolves: the invocation schedules the
\* upsert of every object, or (dry run) returns the stats
ReconcileResolves ==
    /\ run > 0 /\ phase[run] = "reconcile"
    /\ AllReconcileDone(run)
    /\ IF RewritesObjects(dryRun[run])
       THEN /\ rewrite' = [rewrite EXCEPT ![run] = [i \in 1..Len(items[run]) |-> "queued"]]
            /\ phase' = [phase EXCEPT ![run] = "rewrite"]
            /\ UNCHANGED stats
       ELSE /\ stats' = [stats EXCEPT ![run] = Stats(run)]
            /\ phase' = [phase EXCEPT ![run] = "returned"]
            /\ UNCHANGED rewrite
    /\ UNCHANGED <<uniqueKeyTable, otherTable, run, items, reconcile, writtenRecords,
                   clock, nextUuid, failures>>
    /\ UNCHANGED scanVars
    /\ UNCHANGED argVars
    /\ UNCHANGED upsertCalls

\* Promise.all of the reconcile tasks rejects with the first failure: the
\* await throws out of the invocation
ReconcileRejects ==
    /\ run > 0 /\ phase[run] = "reconcile"
    /\ SomeReconcileFailed(run)
    /\ phase' = [phase EXCEPT ![run] = "threw"]
    /\ UNCHANGED <<uniqueKeyTable, otherTable, run, items, reconcile, rewrite,
                   writtenRecords, stats, clock, nextUuid, failures>>
    /\ UNCHANGED scanVars
    /\ UNCHANGED argVars
    /\ UNCHANGED upsertCalls

----------------------------------------------------------------------------
(* The re-write phase: one forced upsert per scanned object *)

\* a faulty variant of ForceArgument: upsert called without `force`
ForceArgumentOmitted == FALSE

\* the `force` argument the migration passes to upsert
ForceArgument == TRUE

SetRewrite(r, i, pc) == rewrite' = [rewrite EXCEPT ![r][i] = pc]

\* the limiter starts the task: it calls upsert({ object, force: true })
RewriteStart(r, i) ==
    /\ IsRewriteTask(r, i)
    /\ rewrite[r][i] = "queued"
    /\ LimiterAdmits
    /\ SetRewrite(r, i, "upsert")
    /\ upsertCalls' = [upsertCalls EXCEPT ![r][i] = Append(@, ForceArgument)]
    /\ UNCHANGED <<uniqueKeyTable, otherTable, run, phase, items, reconcile,
                   writtenRecords, stats, clock, nextUuid, failures>>
    /\ UNCHANGED scanVars
    /\ UNCHANGED argVars

\* upsert completes, at a time later than every stamp written before; its
\* findByUnique may throw, which fails the task
UpsertCompletes(r, i) ==
    /\ IsRewriteTask(r, i)
    /\ rewrite[r][i] = "upsert"
    /\ LET object == Objects(r)[i]
           now == clock + 1
       IN IF findByUnique(uniqueKeyTable, object).kind = "threw"
          THEN /\ SetRewrite(r, i, "failed")
               /\ UNCHANGED <<uniqueKeyTable, clock, nextUuid>>
          ELSE /\ uniqueKeyTable' = upsert(uniqueKeyTable, object,
                                             upsertCalls[r][i][Len(upsertCalls[r][i])],
                                             now, nextUuid)
               /\ nextUuid' = IF upsertGeneratesUuid(uniqueKeyTable, object)
                              THEN nextUuid + 1 ELSE nextUuid
               /\ clock' = now
               /\ SetRewrite(r, i, "done")
    /\ UNCHANGED <<otherTable, run, phase, items, reconcile, writtenRecords, stats,
                   failures>>
    /\ UNCHANGED scanVars
    /\ UNCHANGED argVars
    /\ UNCHANGED upsertCalls

\* a store call of upsert fails: the task fails
UpsertFails(r, i) ==
    /\ IsRewriteTask(r, i)
    /\ rewrite[r][i] = "upsert"
    /\ failures < MaxFailures
    /\ failures' = failures + 1
    /\ SetRewrite(r, i, "failed")
    /\ UNCHANGED <<uniqueKeyTable, otherTable, run, phase, items, reconcile,
                   writtenRecords, stats, clock, nextUuid>>
    /\ UNCHANGED scanVars
    /\ UNCHANGED argVars
    /\ UNCHANGED upsertCalls

\* a faulty variant of AllRewriteDone: waits for the tasks to settle, done or failed
AllRewriteSettled(r) == \A i \in 1..Len(rewrite[r]) : rewrite[r][i] \in {"done", "failed"}

\* a faulty variant of AllRewriteDone: resolves once every upsert has been started
NoRewriteQueued(r) == \A i \in 1..Len(rewrite[r]) : rewrite[r][i] # "queued"

AllRewriteDone(r) == \A i \in 1..Len(rewrite[r]) : rewrite[r][i] = "done"
SomeRewriteFailed(r) == \E i \in 1..Len(rewrite[r]) : rewrite[r][i] = "failed"

\* Promise.all of the upserts resolves: the invocation returns the stats
RewriteResolves ==
    /\ run > 0 /\ phase[run] = "rewrite"
    /\ AllRewriteDone(run)
    /\ stats' = [stats EXCEPT ![run] = Stats(run)]
    /\ phase' = [phase EXCEPT ![run] = "returned"]
    /\ UNCHANGED <<uniqueKeyTable, otherTable, run, items, reconcile, rewrite,
                   writtenRecords, clock, nextUuid, failures>>
    /\ UNCHANGED scanVars
    /\ UNCHANGED argVars
    /\ UNCHANGED upsertCalls

\* Promise.all of the upserts rejects with the first failure: the await
\* throws out of the invocation
RewriteRejects ==
    /\ run > 0 /\ phase[run] = "rewrite"
    /\ SomeRewriteFailed(run)
    /\ phase' = [phase EXCEPT ![run] = "threw"]
    /\ UNCHANGED <<uniqueKeyTable, otherTable, run, items, reconcile, rewrite,
                   writtenRecords, stats, clock, nextUuid, failures>>
    /\ UNCHANGED scanVars
    /\ UNCHANGED argVars
    /\ UNCHANGED upsertCalls

----------------------------------------------------------------------------
(* Specification *)

Next ==
    \/ \E dry \in BOOLEAN, source \in {"unique", "other"} : Invoke(dry, source)
    \/ \E n \in 1..MaxPageSize, more \in BOOLEAN : ScanNextPage(n, more)
    \/ ScanFails
    \/ \E r \in Runs, i \in 1..MaxItems : ReconcileStart(r, i)
    \/ \E r \in Runs, i \in 1..MaxItems : ReconcileLookup(r, i)
    \/ \E r \in Runs, i \in 1..MaxItems : ReconcileLookupFails(r, i)
    \/ \E r \in Runs, i \in 1..MaxItems : ReconcilePut(r, i)
    \/ \E r \in Runs, i \in 1..MaxItems : ReconcilePutFails(r, i)
    \/ ReconcileResolves
    \/ ReconcileRejects
    \/ \E r \in Runs, i \in 1..MaxItems : RewriteStart(r, i)
    \/ \E r \in Runs, i \in 1..MaxItems : UpsertCompletes(r, i)
    \/ \E r \in Runs, i \in 1..MaxItems : UpsertFails(r, i)
    \/ RewriteResolves
    \/ RewriteRejects

Spec == Init /\ [][Next]_vars

\* the steps that a store call which settles without an error, the limiter
\* and the event loop take
Progress ==
    \/ \E n \in 1..MaxPageSize, more \in BOOLEAN : ScanNextPage(n, more)
    \/ \E r \in Runs, i \in 1..MaxItems : ReconcileStart(r, i)
    \/ \E r \in Runs, i \in 1..MaxItems : ReconcileLookup(r, i)
    \/ \E r \in Runs, i \in 1..MaxItems : ReconcilePut(r, i)
    \/ ReconcileResolves
    \/ ReconcileRejects
    \/ \E r \in Runs, i \in 1..MaxItems : RewriteStart(r, i)
    \/ \E r \in Runs, i \in 1..MaxItems : UpsertCompletes(r, i)
    \/ RewriteResolves
    \/ RewriteRejects

\* the initial states of FairSpec: the migration reads its own unique key
\* table, whose records all carry the same uuid and the same updatedAt
InitFair ==
    /\ Init
    /\ otherTable = {}
    /\ \A x \in uniqueKeyTable : x.o[2] = 1 /\ x.o[3] = 1

\* every store call eventually settles and every continuation eventually runs
FairSpec == InitFair /\ [][Next]_vars /\ WF_vars(Progress)

----------------------------------------------------------------------------
(* Properties *)

IsSettled(pc) == pc \in {"done", "failed"}

\* invocation r ran with no task of an earlier invocation left behind
NoEarlierFailure(r) == \A q \in 1..(r - 1) : phase[q] = "returned"

\* the scan of the current invocation has received its last page
ScanReturnedLastPage == scanLog # <<>> /\ scanLog[Len(scanLog)][2] = NoKey

\* number of items in the pages before page k
RECURSIVE ItemsBeforePage(_)
ItemsBeforePage(k) == IF k <= 1 THEN 0 ELSE ItemsBeforePage(k - 1) + Len(pages[k - 1])

\* C7 Pagination completeness: the first scan request carries no start key,
\* each later request carries the continuation token of the response before
\* it, the items handed to the phases are the items of all pages in order
\* with none lost or duplicated (the whole source table when nothing wrote
\* to it meanwhile), and migrated.objects counts them all.
C7_PaginationComplete ==
    run > 0 =>
        /\ scanLog # <<>> => scanLog[1][1] = NoKey
        /\ \A k \in 2..Len(scanLog) : scanLog[k][1] = scanLog[k - 1][2]
        /\ Len(pages) = Len(scanLog)
        /\ ScanReturnedLastPage =>
            /\ Len(items[run]) = ItemsBeforePage(Len(pages) + 1)
            /\ \A k \in 1..Len(pages) : \A j \in 1..Len(pages[k]) :
                   items[run][ItemsBeforePage(k) + j] = pages[k][j]
            /\ NoEarlierFailure(run) =>
                   /\ Len(items[run]) = Cardinality(sourceAtStart[run])
                   /\ {items[run][j] : j \in 1..Len(items[run])} = sourceAtStart[run]
            /\ stats[run] # NoStats => stats[run].objects = ItemsBeforePage(Len(pages) + 1)

\* a scan of three pages has handed all its items to a returned invocation
C7_Witness ==
    /\ run > 0 /\ phase[run] = "returned"
    /\ Len(pages) = 3
    /\ stats[run].objects = 2

\* C8 Concurrency cap: the tasks of both phases and of all invocations that
\* the limiter has started and that have not settled are never more than
\* maxConcurrent.
C8_ConcurrencyCap == InFlight <= maxConcurrent

\* the limiter is full while a task of the current invocation waits
C8_Witness ==
    /\ InFlight = maxConcurrent
    /\ run > 0
    /\ \/ \E i \in 1..Len(reconcile[run]) : reconcile[run][i].pc = "queued"
       \/ \E i \in 1..Len(rewrite[run]) : rewrite[run][i] = "queued"

\* C9 Phase barrier: a reconcile task has started only once the scan has
\* returned its last page, and a re-write task has started only once every
\* reconcile task of its invocation has settled.
C9_PhaseBarrier ==
    \A r \in Runs :
        /\ (\E i \in 1..Len(reconcile[r]) : reconcile[r][i].pc # "queued") =>
               /\ phase[r] # "scan"
               /\ r = run => ScanReturnedLastPage
        /\ (\E i \in 1..Len(rewrite[r]) : rewrite[r][i] # "queued") =>
               \A j \in 1..Len(reconcile[r]) : IsSettled(reconcile[r][j].pc)

\* an upsert is in flight after two reconcile tasks have settled
C9_Witness ==
    \E r \in Runs :
        /\ \E i \in 1..Len(rewrite[r]) : rewrite[r][i] = "upsert"
        /\ Len(reconcile[r]) >= 2
        /\ \E j \in 1..Len(reconcile[r]) : reconcile[r][j].put

\* number of times index i was pushed to writtenRecords of invocation r
TimesWritten(r, i) ==
    Cardinality({k \in 1..Len(writtenRecords[r]) : writtenRecords[r][k] = i})

\* the stored key and the updatedAt of the i-th scanned item of invocation
\* r, read off the item as the store returned it
StoredKeyDiffers(r, i) == items[r][i].p # <<"new", items[r][i].o[1]>>
ScannedUpdatedAt(r, i) == items[r][i].o[3]

\* the lookup of task i of invocation r found an object that is not older
FoundNotOlder(r, i) ==
    /\ reconcile[r][i].found.kind = "found"
    /\ reconcile[r][i].found.object.updatedAt >= ScannedUpdatedAt(r, i)

\* the lookup of task i of invocation r found nothing or an older object
FoundNoneOrOlder(r, i) ==
    \/ reconcile[r][i].found.kind = "null"
    \/ /\ reconcile[r][i].found.kind = "found"
       /\ reconcile[r][i].found.object.updatedAt < ScannedUpdatedAt(r, i)

\* C3 No accidental overwrite: a task whose lookup by the expected key found
\* an object with updatedAt greater than or equal to its own object's issues
\* no put, and its object is not among the written records.
C3_NoAccidentalOverwrite ==
    \A r \in Runs : \A i \in 1..Len(reconcile[r]) :
        FoundNotOlder(r, i) =>
            /\ StoredKeyDiffers(r, i)
            /\ reconcile[r][i].pc = "done"
            /\ ~reconcile[r][i].put
            /\ TimesWritten(r, i) = 0

\* a task has skipped an object on equal timestamps, in an invocation that
\* went on to return
C3_Witness ==
    \E r \in Runs : \E i \in 1..Len(reconcile[r]) :
        /\ reconcile[r][i].found.kind = "found"
        /\ reconcile[r][i].found.object.updatedAt = ScannedUpdatedAt(r, i)
        /\ ~dryRun[r]
        /\ phase[r] = "returned"

\* C4, the state part: outside a dry run, a task whose lookup found nothing
\* or a strictly older object has issued the put, and its object is among
\* the written records exactly once when the task is done, not before.
C4_PutIssuedAndCountedOnce ==
    \A r \in Runs : \A i \in 1..Len(reconcile[r]) :
        (~dryRun[r] /\ FoundNoneOrOlder(r, i)) =>
            /\ reconcile[r][i].put
            /\ reconcile[r][i].pc \in {"put", "done", "failed"}
            /\ TimesWritten(r, i) = (IF reconcile[r][i].pc = "done" THEN 1 ELSE 0)

\* C4, the step part: the put that completes leaves, under the key derived
\* for the object, one item that carries the scanned item's identity and
\* payload.
C4_PutWritesScannedObject ==
    \A r \in Runs : \A i \in 1..Len(reconcile[r]) :
        (reconcile[r][i].pc = "put" /\ reconcile'[r][i].pc = "done") =>
            {x \in uniqueKeyTable' : x.p = <<"new", items[r][i].o[1]>>}
                = {[p |-> <<"new", items[r][i].o[1]>>, o |-> items[r][i].o]}

\* C4 Overwrite-when-safe: when the stored key differs from the derived key
\* and nothing, or a strictly older object, is found under the derived key,
\* a reconcile that is not a dry run puts an item under the derived key
\* carrying the scanned object's identity and payload, and counts it once.
C4_OverwriteWhenSafe ==
    /\ []C4_PutIssuedAndCountedOnce
    /\ [][C4_PutWritesScannedObject]_vars

\* a task has overwritten a strictly older object and is counted
C4_Witness ==
    \E r \in Runs : \E i \in 1..Len(reconcile[r]) :
        /\ reconcile[r][i].found.kind = "found"
        /\ reconcile[r][i].found.object.updatedAt < ScannedUpdatedAt(r, i)
        /\ reconcile[r][i].pc = "done"
        /\ TimesWritten(r, i) = 1
        /\ castToDatabaseObject(Objects(r)[i]) \in uniqueKeyTable

\* C5 Dry-run non-mutation: an invocation with dryRun = true issues no put
\* and calls no upsert, and while it runs (no earlier invocation having left
\* tasks behind) the unique key table and the source table are as they were
\* when it was invoked.
C5_DryRunWritesNothing ==
    \A r \in Runs :
        (r <= run /\ dryRun[r]) =>
            /\ \A i \in 1..Len(reconcile[r]) : ~reconcile[r][i].put
            /\ Len(rewrite[r]) = 0
            /\ (r = run /\ NoEarlierFailure(r)) =>
                   /\ uniqueKeyTable = tableAtStart[r]
                   /\ SourceTable(r) = sourceAtStart[r]

\* a dry run has returned after counting an object it would have written
C5_Witness ==
    \E r \in Runs :
        /\ dryRun[r]
        /\ phase[r] = "returned"
        /\ stats[r].writtenUniqueKeyRecords > 0

\* the item stored for the natural key of `item` under the current schema's
\* key carries the identity of `item`, and is the only one there
HoldsIdentityOf(table, item) ==
    LET there == {x \in table : x.p = <<"new", item.o[1]>>}
    IN Cardinality(there) = 1 /\ \A x \in there : x.o[2] = item.o[2]

\* invocation r has just returned, not a dry run, with no task of an earlier
\* invocation left behind
JustMigrated(r) ==
    r = run /\ phase[r] = "returned" /\ ~dryRun[r] /\ NoEarlierFailure(r)

\* C1 Identity preservation: after a successful migration that is not a dry
\* run, every entity that was in the source table before it has exactly one
\* item under the key the current schema derives for it, and that item
\* carries the entity's original identity.
C1_IdentityPreserved ==
    \A r \in Runs :
        JustMigrated(r) => \A item \in sourceAtStart[r] : HoldsIdentityOf(uniqueKeyTable, item)

\* the logical entities of a table: key, natural key and identity of each item
EntitiesOf(table) == {<<x.p, x.o[1], x.o[2]>> : x \in table}

\* invocations r - 1 and r are two successive migrations with the same
\* arguments, both returned, neither a dry run
MigratedTwice(r) ==
    /\ phase[r - 1] = "returned" /\ phase[r] = "returned"
    /\ ~dryRun[r - 1] /\ ~dryRun[r]
    /\ sourceTableName[r - 1] = sourceTableName[r]
    /\ NoEarlierFailure(r)

\* C2 Idempotence: the second of two successive migrations reports
\* writtenUniqueKeyRecords = 0 and leaves in the destination the set of
\* entities the first one left.
C2_Idempotent ==
    \A r \in 2..run :
        MigratedTwice(r) =>
            /\ stats[r].writtenUniqueKeyRecords = 0
            /\ r = run => EntitiesOf(uniqueKeyTable) = EntitiesOf(tableAtStart[r])

\* a second migration has returned after a first one that wrote unique key
\* records for two objects
C2_Witness ==
    \E r \in 2..run :
        /\ MigratedTwice(r)
        /\ stats[r - 1].writtenUniqueKeyRecords = 2
        /\ stats[r].objects = 3

\* C6 Dry-run count accuracy: a dry run followed by a real run with the same
\* arguments (so from the same table contents) report the same
\* writtenUniqueKeyRecords and the same migrated objects.
C6_DryRunCountsAccurate ==
    \A r \in 2..run :
        (/\ phase[r - 1] = "returned" /\ phase[r] = "returned"
         /\ dryRun[r - 1] /\ ~dryRun[r]
         /\ sourceTableName[r - 1] = sourceTableName[r]) =>
            /\ stats[r].writtenUniqueKeyRecords = stats[r - 1].writtenUniqueKeyRecords
            /\ stats[r].objects = stats[r - 1].objects

\* a task of invocation r has failed
TaskFailed(r) == SomeReconcileFailed(r) \/ SomeRewriteFailed(r)

NoTaskCancelled(r) ==
    /\ \A i \in 1..Len(reconcile[r]) :
        /\ (reconcile[r][i].pc = "queued" /\ LimiterAdmits) => ENABLED ReconcileStart(r, i)
        /\ reconcile[r][i].pc = "lookup" => ENABLED ReconcileLookup(r, i)
        /\ reconcile[r][i].pc = "put" => ENABLED ReconcilePut(r, i)
    /\ \A i \in 1..Len(rewrite[r]) :
        /\ (rewrite[r][i] = "queued" /\ LimiterAdmits) => ENABLED RewriteStart(r, i)
        /\ rewrite[r][i] = "upsert" => ENABLED UpsertCompletes(r, i)

----------------------------------------------------------------------------
(* C11: a failed scan request *)

\* invocation r threw and none of its tasks failed: its scan loop threw
ScanFailed(r) == phase[r] = "threw" /\ ~TaskFailed(r)

\* C11: an invocation whose scan request failed throws without a report, and
\* it has issued no findByUnique lookup, no put and no upsert, however many
\* pages it had fetched: it has no object, no task and no pushed record, and
\* the tables are as they were when it was invoked.
C11_ScanFailureWritesNothing ==
    \A r \in Runs : ScanFailed(r) =>
        /\ stats[r] = NoStats
        /\ items[r] = <<>>
        /\ Len(reconcile[r]) = 0
        /\ Len(rewrite[r]) = 0
        /\ Len(writtenRecords[r]) = 0
        /\ (r = run /\ NoEarlierFailure(r)) =>
              /\ uniqueKeyTable = tableAtStart[r]
              /\ SourceTable(r) = sourceAtStart[r]

\* a scan request failed after a page with a stale key record had been fetched
C11_Witness ==
    \E r \in Runs :
        /\ ScanFailed(r) /\ r = run
        /\ Len(pages) >= 1 /\ Len(pages[1]) >= 1
        /\ pages[1][1].p[1] # CurrentFormat

----------------------------------------------------------------------------
(* C12: what an invocation waits for *)

AllTasksSettled(r) ==
    /\ \A i \in 1..Len(reconcile[r]) : IsSettled(reconcile[r][i].pc)
    /\ \A i \in 1..Len(rewrite[r]) : IsSettled(rewrite[r][i])

----------------------------------------------------------------------------
(* C13: puts of concurrent reconcile tasks *)

\* the step is the put of reconcile task i of invocation r
IsPutOf(r, i) ==
    /\ IsReconcileTask(r, i)
    /\ reconcile[r][i].pc = "put"
    /\ reconcile'[r][i].pc = "done"

\* C13 No older-over-newer write under interleaving: with no task of an
\* earlier invocation left in the limiter, a put of a reconcile task never
\* replaces a record whose updatedAt is greater than or equal to the
\* updatedAt of the object it writes.
C13_NoOlderOverNewerWrite ==
    [][\A r \in Runs : \A i \in 1..MaxItems :
          (IsPutOf(r, i) /\ NoEarlierFailure(r)) =>
              \A x \in Query(uniqueKeyTable, expectedSerializedUniqueKey(r, i)) :
                  x.o[3] < Objects(r)[i].updatedAt]_vars

----------------------------------------------------------------------------
(* C14: the outcome of the reconcile phase and the order of its tasks *)

RECURSIVE ReconcileInScanOrder(_, _, _, _)
\* the reconcile tasks of the items from the k-th on, run one after the
\* other in scan order on `table`: the table and the number of records
\* written at the end
ReconcileInScanOrder(table, scanned, dry, k) ==
    IF k > Len(scanned) THEN [table |-> table, written |-> 0]
    ELSE LET object == castFromDatabaseObject(scanned[k])
             item == castToDatabaseObject(object)
             writes == /\ item.p # scanned[k].p
                       /\ SafeToWrite(findByUnique(table, object), object)
             after == ReconcileInScanOrder(
                          IF writes /\ PutsToTable(dry) THEN Put(table, item) ELSE table,
                          scanned, dry, k + 1)
         IN [table |-> after.table,
             written |-> after.written + (IF writes THEN 1 ELSE 0)]

\* the reconcile phase of invocation r has just completed
ReconcileCompleted(r) ==
    /\ phase[r] = "reconcile"
    /\ AllReconcileDone(r)

\* C14 Record-order independence: whatever the order and the interleaving of
\* the reconcile tasks, when the reconcile phase completes the unique key
\* table and the number of written records are those of the tasks run one
\* after the other in scan order.
C14_RecordOrderIndependent ==
    \A r \in Runs : (ReconcileCompleted(r) /\ NoEarlierFailure(r)) =>
        LET inOrder == ReconcileInScanOrder(tableAtStart[r], items[r], dryRun[r], 1)
        IN /\ uniqueKeyTable = inOrder.table
           /\ Len(writtenRecords[r]) = inOrder.written

----------------------------------------------------------------------------
(* C15: records stored under the key the current schema derives *)

\* C15 Matching key means no action: the task of a record whose stored key
\* equals the derived key runs no findByUnique lookup, issues no put and is
\* not counted among the written records.
C15_MatchingKeyNoAction ==
    \A r \in Runs : \A i \in 1..Len(reconcile[r]) :
        ~StoredKeyDiffers(r, i) =>
            /\ reconcile[r][i].pc \in {"queued", "done"}
            /\ reconcile[r][i].found = NotLookedUp
            /\ ~reconcile[r][i].put
            /\ TimesWritten(r, i) = 0

\* the task of a record with a matching key has run, next to the task of a
\* record with an outdated key that was written
C15_Witness ==
    \E r \in Runs : \E i, j \in 1..Len(reconcile[r]) :
        /\ ~StoredKeyDiffers(r, i) /\ reconcile[r][i].pc = "done"
        /\ StoredKeyDiffers(r, j) /\ TimesWritten(r, j) = 1

----------------------------------------------------------------------------
(* C16: the re-write phase *)

\* C16 Forced re-write of every entity: when an invocation that is no dry
\* run returns, upsert has been called exactly once for each object of the
\* scan, each time with force = true, and for nothing else; a dry run calls
\* no upsert.
C16_ForcedRewriteOfEveryEntity ==
    \A r \in Runs :
        /\ (phase[r] = "returned" /\ ~dryRun[r]) =>
              \A i \in 1..MaxItems :
                  upsertCalls[r][i] = IF i <= Len(items[r]) THEN <<TRUE>> ELSE <<>>
        /\ dryRun[r] => \A i \in 1..MaxItems : upsertCalls[r][i] = <<>>
        /\ \A i \in 1..MaxItems : Len(upsertCalls[r][i]) <= 1

\* an invocation has returned after the upserts of two objects, one stored
\* under an outdated key and one under the current key
C16_Witness ==
    \E r \in Runs :
        /\ phase[r] = "returned" /\ ~dryRun[r]
        /\ Len(items[r]) = 2
        /\ StoredKeyDiffers(r, 1) /\ ~StoredKeyDiffers(r, 2)
        /\ upsertCalls[r][1] = <<TRUE>> /\ upsertCalls[r][2] = <<TRUE>>

----------------------------------------------------------------------------
(* C17: a unique key table that holds two records under one unique key *)

\* two different records stored under the current unique key of nk
AmbiguousPairs(nk) ==
    {pair \in {{StoredItem(CurrentFormat, Entity(nk, a[1], a[2])),
                StoredItem(CurrentFormat, Entity(nk, b[1], b[2]))} :
                   a \in (1..MaxUuid) \X (1..MaxTime), b \in (1..MaxUuid) \X (1..MaxTime)} :
        Cardinality(pair) = 2}

\* the unique key table holds two records under one current unique key (the
\* data-integrity violation of spec 7), next to at most MaxRecords - 1 other
\* records in the two tables
InitAmbiguous ==
    /\ \E nk \in NaturalKeys : \E pair \in AmbiguousPairs(nk) :
          \E others \in TablesUpTo(MaxRecords - 1) :
              /\ \A x \in others : x.p # SerializeUniqueKey(CurrentFormat, nk)
              /\ uniqueKeyTable = pair \cup others
    /\ otherTable \in TablesUpTo(MaxRecords + 1 - Cardinality(uniqueKeyTable))
    /\ NotInvoked

\* the migration on a sound and on an ambiguous unique key table
AmbiguousSpec == (Init \/ InitAmbiguous) /\ [][Next]_vars

\* the step is the answer of findByUnique to reconcile task i of invocation r
IsLookupOf(r, i) ==
    /\ IsReconcileTask(r, i)
    /\ reconcile[r][i].pc = "lookup"
    /\ reconcile'[r][i].found # NotLookedUp

\* findByUnique gives null for no stored record under the derived key, the
\* decoded object for one, and throws for more than one
C17_LookupByNumberOfRecords ==
    \A r \in Runs : \A i \in 1..MaxItems : IsLookupOf(r, i) =>
        LET stored == {x \in uniqueKeyTable : x.p = <<CurrentFormat, items[r][i].o[1]>>}
            result == reconcile'[r][i].found
        IN /\ Cardinality(stored) = 0 => result = Null
           /\ Cardinality(stored) = 1 =>
                 /\ result.kind = "found"
                 /\ \E x \in stored : SerializeObject(result.object) = x.o
           /\ Cardinality(stored) > 1 => result = Threw

\* a task whose lookup threw has failed, with no put and no record pushed,
\* and its invocation goes on to no re-write and returns no stats
C17_ThrowFailsTask ==
    \A r \in Runs : \A i \in 1..Len(reconcile[r]) :
        reconcile[r][i].found = Threw =>
            /\ reconcile[r][i].pc = "failed"
            /\ ~reconcile[r][i].put
            /\ TimesWritten(r, i) = 0
            /\ phase[r] \in {"reconcile", "threw"}
            /\ rewrite[r] = <<>>
            /\ stats[r] = NoStats

\* C17 Ambiguous unique match is an error, not a skip: findByUnique returns
\* null for zero stored records under the derived key, the decoded object
\* for one, and throws for more than one; the throw fails the reconcile
\* task with no put and no count, and the invocation returns no report.
C17_AmbiguousMatchIsAnError ==
    []C17_ThrowFailsTask /\ [][C17_LookupByNumberOfRecords]_vars

\* the lookup of a record with an outdated key found two records under the
\* derived key, and the invocation threw
C17_Witness ==
    \E r \in Runs : \E i \in 1..Len(reconcile[r]) :
        /\ reconcile[r][i].found = Threw
        /\ StoredKeyDiffers(r, i)
        /\ Cardinality(Query(uniqueKeyTable, expectedSerializedUniqueKey(r, i))) = 2
        /\ phase[r] = "threw"

----------------------------------------------------------------------------
(* C18: the end of the scan loop *)

\* the scan loop stops exactly with the response that carries no
\* LastEvaluatedKey: no request follows such a response, the loop goes on
\* after every other response, and an invocation is past its scan loop only
\* after such a response (or after a request failed)
C18_StopsWithoutToken ==
    /\ \A k \in 1..(Len(scanLog) - 1) : scanLog[k][2] # NoKey
    /\ (run > 0 /\ phase[run] = "scan") => ~ScanReturnedLastPage
    /\ (run > 0 /\ phase[run] \in {"reconcile", "rewrite", "returned"}) => ScanReturnedLastPage
    /\ (run > 0 /\ phase[run] = "threw" /\ ~ScanReturnedLastPage) => ScanFailed(run)

\* the current invocation is in its scan loop; it has returned or thrown (the
\* next invocation is made only after that)
Scanning == run > 0 /\ phase[run] = "scan"
Settled == run > 0 /\ phase[run] \in {"returned", "threw"}

\* C18 Scan termination: the scan loop stops issuing requests exactly when a
\* response carries no continuation token, and every invocation eventually
\* returns its stats or throws.
C18_ScanTermination ==
    /\ []C18_StopsWithoutToken
    /\ Scanning ~> Settled

\* an invocation has returned after a scan of three requests
C18_Witness ==
    /\ run > 0 /\ phase[run] = "returned"
    /\ Len(scanLog) = 3
    /\ scanLog[3][2] = NoKey
    /\ Len(items[run]) = 2

----------------------------------------------------------------------------
(* C19: what the reconcile phase writes *)

\* a reconcile task takes a step
IsReconcileStep == \E r \in Runs : \E i \in 1..MaxItems :
    /\ IsReconcileTask(r, i)
    /\ reconcile'[r][i] # reconcile[r][i]

\* a step of a reconcile task changes the unique key table only by its put,
\* and only under the key derived for its record; it leaves the other table
\* alone
C19_PutOnlyAtDerivedKey ==
    IsReconcileStep =>
        /\ otherTable' = otherTable
        /\ \A r \in Runs : \A i \in 1..MaxItems : IsPutOf(r, i) =>
              \A x \in uniqueKeyTable \cup uniqueKeyTable' :
                  (x \in uniqueKeyTable) # (x \in uniqueKeyTable') =>
                      x.p = expectedSerializedUniqueKey(r, i)
        /\ (\A r \in Runs : \A i \in 1..MaxItems : ~IsPutOf(r, i)) =>
              uniqueKeyTable' = uniqueKeyTable

\* the records stored under an outdated key when an invocation was made are
\* still stored, unchanged, and a source table other than the unique key
\* table is as it was
C19_StaleRecordsRemain ==
    \A r \in Runs :
        /\ \A x \in tableAtStart[r] : x.p[1] # CurrentFormat => x \in uniqueKeyTable
        /\ (r <= run /\ sourceTableName[r] = "other") => otherTable = sourceAtStart[r]

----------------------------------------------------------------------------
(* C20: a failed reconcile task *)

\* C20: an invocation with a failed reconcile task schedules no re-write
\* task, calls no upsert and returns no stats: it is in its reconcile phase
\* or has thrown.
C20_ReconcileFailureStopsRewrite ==
    \A r \in Runs : SomeReconcileFailed(r) =>
        /\ phase[r] \in {"reconcile", "threw"}
        /\ rewrite[r] = <<>>
        /\ \A i \in 1..MaxItems : upsertCalls[r][i] = <<>>
        /\ stats[r] = NoStats

\* an invocation has thrown after one of its reconcile tasks failed and
\* another one had put its record
C20_Witness ==
    \E r \in Runs : \E i, j \in 1..Len(reconcile[r]) :
        /\ phase[r] = "threw"
        /\ reconcile[r][i].pc = "failed"
        /\ reconcile[r][j].pc = "done" /\ TimesWritten(r, j) = 1 /\ ~dryRun[r]

====
